---- MODULE Spec2Model ----
(***************************************************************************)
(* A model of mblend (src/mblend/__init__.py): one-dimensional polynomial  *)
(* motions, the cubic blend of two motions, the piecewise blended motion   *)
(* and the flattening of chains of blends.                                 *)
(*                                                                         *)
(* Numbers are exact rationals <<n, d>> in lowest terms with d > 0: the    *)
(* rounding of IEEE doubles is not modelled, so "equal" below is what the  *)
(* code computes in exact arithmetic.  numpy arrays are records            *)
(* [py, shape, data]: py marks a Python scalar, shape is the array's shape *)
(* (<<>> for a scalar or a 0-d array) and data its elements, row-major.    *)
(***************************************************************************)
EXTENDS Integers, Sequences, FiniteSets, TLC

VARIABLES heap, res

vars == <<heap, res>>

\* ------------------------------------------------------------------ bounds

MaxChain == 3
MaxDegree == 2
MaxLen == 2
MaxT == 4

\* ------------------------------------------------------- exact arithmetic

Abs(n) == IF n < 0 THEN -n ELSE n

RECURSIVE GCD(_, _)
GCD(a, b) == IF b = 0 THEN a ELSE GCD(b, a % b)

Norm(n, d) ==
    LET s == IF d < 0 THEN -1 ELSE 1
        g == GCD(Abs(n), Abs(d))
    IN  <<(s * n) \div g, (s * d) \div g>>

R(i) == <<i, 1>>
Zero == R(0)
One == R(1)

RAdd(x, y) == Norm(x[1] * y[2] + y[1] * x[2], x[2] * y[2])
RSub(x, y) == Norm(x[1] * y[2] - y[1] * x[2], x[2] * y[2])
RMul(x, y) == Norm(x[1] * y[1], x[2] * y[2])
RDiv(x, y) == Norm(x[1] * y[2], x[2] * y[1])
RLt(x, y) == x[1] * y[2] < y[1] * x[2]
RLe(x, y) == x[1] * y[2] <= y[1] * x[2]
RAbs(x) == <<Abs(x[1]), x[2]>>

RECURSIVE RPow(_, _)
RPow(x, k) == IF k = 0 THEN One ELSE RMul(x, RPow(x, k - 1))

\* a function over 1..n as a finite sequence, evaluated once
Tup(f) == f \o <<>>

RECURSIVE RSum(_)
RSum(s) == IF s = <<>> THEN Zero ELSE RAdd(Head(s), RSum(Tail(s)))

\* ------------------------------------------------------------ numpy values

PyFloat(x) == [py |-> TRUE, shape |-> <<>>, data |-> <<x>>]
Array1(s) == [py |-> FALSE, shape |-> <<Len(s)>>, data |-> Tup(s)]
Array2(r, c, s) == [py |-> FALSE, shape |-> <<r, c>>, data |-> Tup(s)]

IsScalar(t) == t.py

AtLeast1d(t) == IF t.shape = <<>> THEN Array1(t.data) ELSE t

SubScalar(a, x) ==
    [a EXCEPT !.data = Tup([i \in 1..Len(a.data) |-> RSub(a.data[i], x)])]

\* np.vander(x, n): row i holds x[i]^(n-1), ..., x[i]^1, x[i]^0
Vander(x, n) ==
    Array2(Len(x.data), n,
           [k \in 1..(Len(x.data) * n) |->
               RPow(x.data[((k - 1) \div n) + 1], n - 1 - ((k - 1) % n))])

\* a @ b for 2-d @ 2-d; a 1-d left operand is a row vector whose added
\* dimension is dropped from the result
MatMul2(a, b) ==
    LET r == a.shape[1]
        n == a.shape[2]
        c == b.shape[2]
    IN  Array2(r, c,
               [k \in 1..(r * c) |->
                   RSum(Tup([j \in 1..n |->
                       RMul(a.data[((k - 1) \div c) * n + j],
                            b.data[(j - 1) * c + ((k - 1) % c) + 1])]))])

AsRow(a) == IF Len(a.shape) = 1 THEN Array2(1, a.shape[1], a.data) ELSE a
DropRowAxis(was1d, p) ==
    IF was1d THEN [py |-> FALSE, shape |-> <<p.shape[2]>>, data |-> p.data] ELSE p

MatMul(a, b) == DropRowAxis(Len(a.shape) = 1, MatMul2(AsRow(a), b))

\* a.T: reverses the axes; a 1-d array is its own transpose
Transpose(a) ==
    IF Len(a.shape) = 2
    THEN LET r == a.shape[1]
             c == a.shape[2]
         IN  Array2(c, r,
                    [k \in 1..(r * c) |->
                        a.data[((k - 1) % r) * c + ((k - 1) \div r) + 1]])
    ELSE a

\* x.item(): the single element of x as a Python scalar
Item(x) == PyFloat(x.data[1])

\* x.squeeze(-1): drops the last axis, which has length one
Squeeze(x) ==
    [py |-> FALSE, shape |-> SubSeq(x.shape, 1, Len(x.shape) - 1), data |-> x.data]

\* the two returns of at and d_at: x.item() for a scalar t, else
\* x.squeeze(-1)
ItemOrSqueeze(scalar, x) == IF scalar THEN Item(x) ELSE Squeeze(x)

\* ------------------------------------------------------- PolynomialMotion

\* __post_init__: degree = len(coeffs) - 1, coeffs reshaped to a column
PolynomialMotion(offset, coeffs) ==
    [kind |-> "poly", offset |-> offset,
     coeffs |-> Array2(Len(coeffs), 1, coeffs),
     degree |-> Len(coeffs) - 1]

PolyAt(self, t) ==
    LET scalar == IsScalar(t)
        t1 == AtLeast1d(t)
        v == Vander(SubScalar(t1, self.offset), self.degree + 1)
        x == MatMul(v, self.coeffs)
    IN  ItemOrSqueeze(scalar, x)

\* mutant: range(1, degree + 1), not reversed
DRange_mut(degree) == Tup([k \in 1..degree |-> k])

\* reversed(range(1, degree + 1)) = degree, degree - 1, ..., 1
DRange(degree) == Tup([k \in 1..degree |-> degree + 1 - k])

\* np.array([i * t ** (i - 1) for i in ...]): one row per i; no row at all
\* gives the empty 1-d array
DRows(t, is) ==
    IF is = <<>>
    THEN Array1(<<>>)
    ELSE LET n == Len(t.data)
         IN  Array2(Len(is), n,
                    [k \in 1..(Len(is) * n) |->
                        LET i == is[((k - 1) \div n) + 1]
                        IN  RMul(R(i), RPow(t.data[((k - 1) % n) + 1], i - 1))])

\* coeffs[:-1]: all rows of the column but the last
DropLast(c) == Array2(c.shape[1] - 1, 1, SubSeq(c.data, 1, c.shape[1] - 1))

PolyDAt(self, t) ==
    LET scalar == IsScalar(t)
        t1 == SubScalar(AtLeast1d(t), self.offset)
        dv == DRows(t1, DRange(self.degree))
        dx == MatMul(Transpose(dv), DropLast(self.coeffs))
    IN  ItemOrSqueeze(scalar, dx)

\* ------------------------------------------------------------ poly_blend_3

\* The matrix of the four boundary conditions, rows in the order the code
\* fills them: position at start, position at end, velocity at start,
\* velocity at end.
\* mutant: the last row is 3h, 2h, 1, 0
BlendMatrix_mut(h) ==
    <<  <<Zero, Zero, Zero, One>>,
        <<RPow(h, 3), RPow(h, 2), h, One>>,
        <<Zero, Zero, One, Zero>>,
        <<RMul(R(3), h), RMul(R(2), h), One, Zero>>  >>

BlendMatrix(h) ==
    <<  <<Zero, Zero, Zero, One>>,
        <<RPow(h, 3), RPow(h, 2), h, One>>,
        <<Zero, Zero, One, Zero>>,
        <<RMul(R(3), RPow(h, 2)), RMul(R(2), h), One, Zero>>  >>

\* np.linalg.solve: LU factorisation with partial pivoting (the first row of
\* largest magnitude in the column), then back substitution.  M is the 4x5
\* augmented matrix.
PivotRow(M, k) ==
    CHOOSE p \in k..4 :
        /\ \A i \in k..4 : RLe(RAbs(M[i][k]), RAbs(M[p][k]))
        /\ \A i \in k..(p - 1) : RLt(RAbs(M[i][k]), RAbs(M[p][k]))

SwapRows(M, i, j) == [M EXCEPT ![i] = M[j], ![j] = M[i]]

EliminateColumn(M, k) ==
    Tup([i \in 1..4 |->
        IF i <= k \/ M[k][k] = Zero
        THEN M[i]
        ELSE LET f == RDiv(M[i][k], M[k][k])
             IN  Tup([j \in 1..5 |-> RSub(M[i][j], RMul(f, M[k][j]))])])

RECURSIVE Factor(_, _)
Factor(M, k) ==
    IF k > 4
    THEN M
    ELSE Factor(EliminateColumn(SwapRows(M, k, PivotRow(M, k)), k), k + 1)

RECURSIVE BackSubstitute(_, _, _)
BackSubstitute(U, k, x) ==
    IF k = 0
    THEN x
    ELSE LET s == RSum(Tup([j \in 1..(4 - k) |-> RMul(U[k][k + j], x[k + j])]))
             xk == RDiv(RSub(U[k][5], s), U[k][k])
         IN  BackSubstitute(U, k - 1, [x EXCEPT ![k] = xk])

\* a zero on the diagonal of the factor: the matrix is singular
SolveFactored(U) ==
    IF \E k \in 1..4 : U[k][k] = Zero
    THEN [err |-> "LinAlgError", val |-> <<>>]
    ELSE [err |-> "none", val |-> BackSubstitute(U, 4, <<Zero, Zero, Zero, Zero>>)]

Solve(A, b) == SolveFactored(Factor(Tup([i \in 1..4 |-> A[i] \o <<b[i]>>]), 1))

\* ------------------------------------------- PolynomialMotionBlend, _flatten

\* the range property: (offset, offset + horizon)
Range(self) == <<self.offset, RAdd(self.offset, self.horizon)>>

\* boolean masks over a 1-d array, t[mask] and x[mask] = v
MaskLt(t, x) == Tup([i \in 1..Len(t.data) |-> RLt(t.data[i], x)])
MaskGt(t, x) == Tup([i \in 1..Len(t.data) |-> RLt(x, t.data[i])])
\* mutant: the two ends of the range belong to no piece
MaskBetween_mut(t, lo, hi) ==
    Tup([i \in 1..Len(t.data) |-> RLt(lo, t.data[i]) /\ RLt(t.data[i], hi)])

MaskBetween(t, lo, hi) ==
    Tup([i \in 1..Len(t.data) |-> RLe(lo, t.data[i]) /\ RLe(t.data[i], hi)])

\* how many of mask[1..i] are set
RECURSIVE CountTo(_, _)
CountTo(mask, i) ==
    IF i = 0 THEN 0 ELSE CountTo(mask, i - 1) + (IF mask[i] THEN 1 ELSE 0)

RECURSIVE Select(_, _)
Select(s, mask) ==
    IF s = <<>>
    THEN <<>>
    ELSE (IF Head(mask) THEN <<Head(s)>> ELSE <<>>) \o Select(Tail(s), Tail(mask))

GetMask(t, mask) == Array1(Select(t.data, mask))

\* x[mask] = v: the k-th selected element takes v's k-th element; a v of a
\* single element (a 0-d array included) is broadcast
SetMask(x, mask, v) ==
    [x EXCEPT !.data =
        Tup([i \in 1..Len(x.data) |->
            IF mask[i]
            THEN (IF Len(v.data) = 1 THEN v.data[1] ELSE v.data[CountTo(mask, i)])
            ELSE x.data[i]])]

\* np.empty_like(t): the shape of t, the contents whatever memory held (g)
EmptyLike(t, g) == [t EXCEPT !.data = Tup([i \in 1..Len(t.data) |-> g])]

\* the two returns of _compute: x.item() for a scalar t, else x
ItemOrArray(scalar, x) == IF scalar THEN Item(x) ELSE x

RECURSIVE Eval(_, _, _, _, _)
\* _compute: each time is answered by m1 before the range, m2 after it and
\* blend inside it
Compute(h, self, t, attr, g) ==
    LET scalar == IsScalar(t)
        t1 == AtLeast1d(t)
        low == Range(self)[1]
        high == Range(self)[2]
        x0 == EmptyLike(t1, g)
        mask1 == MaskLt(t1, low)
        x1 == SetMask(x0, mask1, Eval(h, self.m1, attr, GetMask(t1, mask1), g))
        mask2 == MaskGt(t1, high)
        x2 == SetMask(x1, mask2, Eval(h, self.m2, attr, GetMask(t1, mask2), g))
        mask3 == MaskBetween(t1, low, high)
        x3 == SetMask(x2, mask3, Eval(h, self.blend, attr, GetMask(t1, mask3), g))
    IN  ItemOrArray(scalar, x3)

\* getattr(m, attr)(t) for the motion at address m of heap h
Eval(h, m, attr, t, g) ==
    IF h[m].kind = "poly"
    THEN (IF attr = "at" THEN PolyAt(h[m], t) ELSE PolyDAt(h[m], t))
    ELSE Compute(h, h[m], t, attr, g)

\* mutant: a zero horizon passes
HorizonInvalid_mut(hz) == RLt(hz, Zero)

\* h <= 0.0
HorizonInvalid(hz) == RLe(hz, Zero)

\* the right-hand side: the positions and velocities the cubic has to meet
\* mutant: m2 is sampled at tnow, the start of the blend
BlendRhs_mut(h, m1, m2, tnow, hz, g) ==
    LET q == << <<m1, "at", tnow>>, <<m2, "at", tnow>>,
                <<m1, "d_at", tnow>>, <<m2, "d_at", tnow>> >>
    IN  Tup([i \in 1..4 |-> Eval(h, q[i][1], q[i][2], PyFloat(q[i][3]), g).data[1]])

\* b[0] = m1.at(tnow), b[1] = m2.at(tnow + h), b[2] = m1.d_at(tnow),
\* b[3] = m2.d_at(tnow + h)
BlendRhs(h, m1, m2, tnow, hz, g) ==
    LET q == << <<m1, "at", tnow>>, <<m2, "at", RAdd(tnow, hz)>>,
                <<m1, "d_at", tnow>>, <<m2, "d_at", RAdd(tnow, hz)>> >>
    IN  Tup([i \in 1..4 |-> Eval(h, q[i][1], q[i][2], PyFloat(q[i][3]), g).data[1]])

\* poly_blend_3: the cubic through the positions and velocities of m1 at
\* tnow and of m2 at tnow + hz, as a PolynomialMotion of offset tnow
\* return PolynomialMotion(tnow, coeffs), unless the solver raised
BlendOf(tnow, sol) ==
    IF sol.err # "none"
    THEN sol
    ELSE [err |-> "none", val |-> PolynomialMotion(tnow, sol.val)]

PolyBlend3(h, m1, m2, tnow, hz, g) ==
    IF HorizonInvalid(hz)
    THEN [err |-> "ValueError", val |-> <<>>]
    ELSE BlendOf(tnow, Solve(BlendMatrix(hz), BlendRhs(h, m1, m2, tnow, hz, g)))

RECURSIVE Flatten(_, _, _)
\* mutant: a composite whose blend is under way is kept as it is
Flatten_mut(h, m, offset) ==
    IF h[m].kind = "blend"
    THEN IF RLt(Range(h[m])[2], offset)
         THEN h[m].m2
         ELSE IF RLt(Range(h[m])[1], offset)
              THEN m
              ELSE Flatten(h, h[m].m1, offset)
    ELSE m

\* _flatten: the address of the motion that stands for m from offset on
Flatten(h, m, offset) ==
    IF h[m].kind = "blend"
    THEN IF RLt(Range(h[m])[2], offset)
         THEN h[m].m2
         ELSE IF RLt(Range(h[m])[1], offset)
              THEN h[m].blend
              ELSE Flatten(h, h[m].m1, offset)
    ELSE m

\* the dataclass __init__ stores the four fields in a new object; blend is
\* set by __post_init__
NewBlendObject(m1, m2, offset, horizon) ==
    [kind |-> "blend", m1 |-> m1, m2 |-> m2, offset |-> offset,
     horizon |-> horizon, blend |-> 0]

\* mutant: the composite passed as m1 is rewired to the flattened motion too
FlattenFields_mut(h, self) ==
    LET old == h[self].m1
        h1 == [h EXCEPT ![self].m1 = Flatten(h, h[self].m1, h[self].offset)]
        h2 == [h1 EXCEPT ![self].m2 = Flatten(h1, h1[self].m2, h1[self].offset)]
    IN  IF h[old].kind = "blend" THEN [h2 EXCEPT ![old].m1 = h2[self].m1] ELSE h2

\* the two assignments self.m1 = _flatten(...) and self.m2 = _flatten(...)
FlattenFields(h, self) ==
    LET h1 == [h EXCEPT ![self].m1 = Flatten(h, h[self].m1, h[self].offset)]
    IN  [h1 EXCEPT ![self].m2 = Flatten(h1, h1[self].m2, h1[self].offset)]

\* __post_init__ on the object at address self; the new cubic is allocated
\* behind it.  A raise leaves the heap as it was before the constructor ran:
\* the half-built object is unreachable.
SetBlend(h, self, pb) ==
    IF pb.err # "none"
    THEN [err |-> pb.err, heap |-> SubSeq(h, 1, self - 1)]
    ELSE [err |-> "none",
          heap |-> [Append(h, pb.val) EXCEPT ![self].blend = Len(h) + 1]]

\* self.blend = poly_blend_3(self.m1, self.m2, self.offset, self.horizon)
BlendFields(h, self, g) ==
    SetBlend(h, self,
             PolyBlend3(h, h[self].m1, h[self].m2, h[self].offset, h[self].horizon, g))

PostInit(h, self, flatten, g) ==
    BlendFields(IF flatten THEN FlattenFields(h, self) ELSE h, self, g)

PolynomialMotionBlend(h, m1, m2, offset, horizon, flatten, g) ==
    PostInit(Append(h, NewBlendObject(m1, m2, offset, horizon)),
             Len(h) + 1, flatten, g)

\* ----------------------------------------------------------------- inputs

\* PolynomialMotion arguments (offset, coeffs): a constant, a line and two
\* quadratics
Catalogue ==
    { <<R(0), <<R(2)>>>>,
      <<R(0), <<R(-1), R(1)>>>>,
      <<R(1), <<R(1), R(-2), R(3)>>>>,
      <<R(2), <<R(-1), R(0), R(1)>>>> }

BlendOffsets == {R(1), R(2), R(3)}
Horizons == {R(-1), R(0), R(1), R(2)}
Times == {R(i) : i \in 0..MaxT}
Garbage == {R(77), R(-5)}

\* the addresses of a heap: its composites, the cubics they own (reached
\* through their composite only) and the motions a caller holds
IdsOf(h) == 1..Len(h)
BlendIdsOf(h) == {m \in IdsOf(h) : h[m].kind = "blend"}
OwnedIdsOf(h) == {h[m].blend : m \in BlendIdsOf(h)}
MotionIdsOf(h) == IdsOf(h) \ OwnedIdsOf(h)
PlainIdsOf(h) == MotionIdsOf(h) \ BlendIdsOf(h)

Ids == IdsOf(heap)
BlendIds == BlendIdsOf(heap)
MotionIds == MotionIdsOf(heap)
PlainIds == PlainIdsOf(heap)

\* ---------------------------------------------------------------- actions

\* res is the call in hand: its name and arguments, whether it has run
\* (done), and then what it returned (out) or raised (err)
NoRes ==
    [op |-> "none", m1 |-> 0, m2 |-> 0, t |-> PyFloat(Zero), hz |-> Zero,
     fl |-> FALSE, done |-> TRUE, out |-> 0, err |-> "none"]

Call(op, m1, m2, t, hz, fl) ==
    [NoRes EXCEPT !.op = op, !.m1 = m1, !.m2 = m2, !.t = t, !.hz = hz,
                  !.fl = fl, !.done = FALSE]

Return(call, out, err) ==
    [call EXCEPT !.done = TRUE, !.out = out, !.err = err]

\* the constructor returns the new composite's address, or raises
Constructed(call, r) ==
    /\ heap' = r.heap
    /\ res' = Return(call, IF r.err = "none" THEN Len(heap) + 1 ELSE 0, r.err)

NewPolynomialMotionBlend(m1, m2, offset, horizon, flatten, g) ==
    Constructed(Call("PolynomialMotionBlend", m1, m2, PyFloat(offset), horizon, flatten),
                PolynomialMotionBlend(heap, m1, m2, offset, horizon, flatten, g))

\* the caller keeps the returned cubic (res.out); it joins no composite
Returned(call, r) == res' = Return(call, r.val, r.err)

CallPolyBlend3(m1, m2, tnow, hz, g) ==
    /\ Returned(Call("poly_blend_3", m1, m2, PyFloat(tnow), hz, FALSE),
                PolyBlend3(heap, m1, m2, tnow, hz, g))
    /\ UNCHANGED heap

CallAt(m, t, g) ==
    /\ res' = Return(Call("at", m, 0, t, Zero, FALSE),
                     Eval(heap, m, "at", t, g), "none")
    /\ UNCHANGED heap

CallDAt(m, t, g) ==
    /\ res' = Return(Call("d_at", m, 0, t, Zero, FALSE),
                     Eval(heap, m, "d_at", t, g), "none")
    /\ UNCHANGED heap

CallFlatten(m, offset) ==
    /\ res' = Return(Call("_flatten", m, 0, PyFloat(offset), Zero, FALSE),
                     Flatten(heap, m, offset), "none")
    /\ UNCHANGED heap

CallRange(m) ==
    /\ res' = Return(Call("range", m, 0, PyFloat(Zero), Zero, FALSE),
                     Range(heap[m]), "none")
    /\ UNCHANGED heap

\* ------------------------------------------------------- heaps to call on

\* every composite that one construction adds to a heap of S
Grow(S, offs, hzs, fls) ==
    UNION { { PolynomialMotionBlend(h, m1, m2, o, hz, fl, g).heap :
                m1 \in MotionIdsOf(h), m2 \in MotionIdsOf(h),
                o \in offs, hz \in hzs, fl \in fls, g \in Garbage } : h \in S }

\* a constant or a line, and a quadratic; one blend of them; a blend of such
\* blends
Heaps0 ==
    { <<PolynomialMotion(R(0), <<R(5)>>),
        PolynomialMotion(R(1), <<R(1), R(-2), R(3)>>)>>,
      <<PolynomialMotion(R(0), <<R(-1), R(1)>>),
        PolynomialMotion(R(1), <<R(1), R(-2), R(3)>>)>> }
Heaps1 == Grow(Heaps0, {R(1)}, {R(1), R(2)}, {FALSE})
Heaps2 == Grow(Heaps1, {R(2)}, {R(1)}, BOOLEAN)

\* a Python float, or an array of up to MaxLen times
TimeInputs ==
    {PyFloat(t) : t \in Times} \cup
    UNION { {Array1(s) : s \in [1..k -> Times]} : k \in 0..MaxLen }

\* ------------------------------------ SpecPoly: at and d_at of a polynomial

PolyCoeffs == UNION { [1..k -> {R(-2), R(0), R(1)}] : k \in 1..(MaxDegree + 1) }

InitPoly ==
    \E o \in {R(0), R(1)}, c \in PolyCoeffs, t \in TimeInputs, a \in {"at", "d_at"} :
        /\ heap = <<PolynomialMotion(o, Tup(c))>>
        /\ res = Call(a, 1, 0, t, Zero, FALSE)

NextPoly ==
    \/ \E g \in Garbage : ~res.done /\ res.op = "at" /\ CallAt(res.m1, res.t, g)
    \/ \E g \in Garbage : ~res.done /\ res.op = "d_at" /\ CallDAt(res.m1, res.t, g)

SpecPoly == InitPoly /\ [][NextPoly]_vars

\* --------------------------------- SpecEval: at and d_at of a composite

\* the composite built last
LastBlend(h) == CHOOSE m \in BlendIdsOf(h) : \A n \in BlendIdsOf(h) : n <= m

InitEval ==
    \E h \in Heaps1 \cup Grow(Heaps1, {R(2)}, {R(1)}, {FALSE}),
       t \in TimeInputs, a \in {"at", "d_at"} :
        /\ heap = h
        /\ res = Call(a, LastBlend(h), 0, t, Zero, FALSE)

SpecEval == InitEval /\ [][NextPoly]_vars

\* ------------------------------------------------ SpecBlend3: poly_blend_3

\* pairs of catalogue motions, and the blends of Heaps1
BlendHeaps ==
    { <<PolynomialMotion(p[1], p[2]), PolynomialMotion(q[1], q[2])>> :
        p \in Catalogue, q \in Catalogue } \cup Heaps1

InitBlend3 ==
    \E h \in BlendHeaps, tnow \in Times, hz \in Horizons :
        \E m1 \in MotionIdsOf(h), m2 \in MotionIdsOf(h) :
            /\ heap = h
            /\ res = Call("poly_blend_3", m1, m2, PyFloat(tnow), hz, FALSE)

NextBlend3 ==
    \E g \in Garbage :
        /\ ~res.done /\ res.op = "poly_blend_3"
        /\ CallPolyBlend3(res.m1, res.m2, res.t.data[1], res.hz, g)

SpecBlend3 == InitBlend3 /\ [][NextBlend3]_vars

\* ---------------------------------------------------- SpecFlatten: _flatten

InitFlatten ==
    \E h \in Heaps1 \cup Heaps2, o \in Times :
        \E m \in MotionIdsOf(h) :
            /\ heap = h
            /\ res = Call("_flatten", m, 0, PyFloat(o), Zero, FALSE)

NextFlatten ==
    /\ ~res.done /\ res.op = "_flatten"
    /\ CallFlatten(res.m1, res.t.data[1])

SpecFlatten == InitFlatten /\ [][NextFlatten]_vars

\* ------------------------------ Spec: one call of any kind on a built heap

Init ==
    \E h \in Heaps0 \cup Heaps1 \cup Heaps2 :
        /\ heap = h
        /\ \/ \E m1 \in MotionIdsOf(h), m2 \in MotionIdsOf(h), o \in BlendOffsets,
                 hz \in Horizons, fl \in BOOLEAN :
                 res = Call("PolynomialMotionBlend", m1, m2, PyFloat(o), hz, fl)
           \/ \E m1 \in MotionIdsOf(h), m2 \in MotionIdsOf(h), hz \in Horizons :
                 res = Call("poly_blend_3", m1, m2, PyFloat(R(2)), hz, FALSE)
           \/ \E m \in MotionIdsOf(h), o \in BlendOffsets :
                 res = Call("_flatten", m, 0, PyFloat(o), Zero, FALSE)
           \/ \E m \in BlendIdsOf(h) :
                 res = Call("range", m, 0, PyFloat(Zero), Zero, FALSE)
           \/ \E m \in MotionIdsOf(h), a \in {"at", "d_at"} :
                 res = Call(a, m, 0, PyFloat(R(2)), Zero, FALSE)

Next ==
    \/ \E g \in Garbage :
          /\ ~res.done /\ res.op = "PolynomialMotionBlend"
          /\ NewPolynomialMotionBlend(res.m1, res.m2, res.t.data[1], res.hz, res.fl, g)
    \/ NextBlend3
    \/ NextFlatten
    \/ ~res.done /\ res.op = "range" /\ CallRange(res.m1)
    \/ NextPoly

Spec == Init /\ [][Next]_vars

\* ------------------------------ SpecChain: a chain of flattened composites

\* the composite built last, or any plain motion while there is none
ChainHead == IF BlendIds = {} THEN PlainIds ELSE {LastBlend(heap)}

InitChain == heap \in Heaps0 /\ res = NoRes

NextChain ==
    \E m1 \in ChainHead, m2 \in PlainIds, o \in BlendOffsets,
       hz \in {x \in Horizons : RLt(Zero, x)}, g \in Garbage :
        /\ Cardinality(BlendIds) < MaxChain
        /\ NewPolynomialMotionBlend(m1, m2, o, hz, TRUE, g)

SpecChain == InitChain /\ [][NextChain]_vars

\* ================================================================== claims

G == CHOOSE g \in Garbage : TRUE

Ran(ops) == res.done /\ res.op \in ops
TimeArg == res.t.data[1]

\* ------------------------------------------------------------------- C5
\* the claim's sums: sum_i coeffs[i] * (t - offset)^(D - i) and
\* sum_{i = 1..D} i * coeffs[D - i] * (t - offset)^(i - 1), coeffs from 0
SumAt(p, t) ==
    RSum(Tup([k \in 1..(p.degree + 1) |->
        RMul(p.coeffs.data[k], RPow(RSub(t, p.offset), p.degree + 1 - k))]))

SumDAt(p, t) ==
    RSum(Tup([i \in 1..p.degree |->
        RMul(RMul(R(i), p.coeffs.data[p.degree - i + 1]),
             RPow(RSub(t, p.offset), i - 1))]))

\* C5: every value at(t) returns is sum_i coeffs[i]*(t-offset)^(D-i) and every
\* value d_at(t) returns is the derivative sum_{i=1..D} i*coeffs[D-i]*
\* (t-offset)^(i-1); a constant has at = c and d_at = 0, [s, c] has
\* at = s*(t-offset)+c and d_at = s, [1,0,0] has at = (t-offset)^2 and
\* d_at = 2*(t-offset).
C5_PolynomialValue ==
    Ran({"at", "d_at"}) =>
        LET p == heap[res.m1]
            c == p.coeffs.data
        IN  \A i \in 1..Len(res.out.data) : i <= Len(res.t.data) =>
                LET t == res.t.data[i]
                    u == RSub(t, p.offset)
                    v == res.out.data[i]
                IN  /\ res.op = "at" => v = SumAt(p, t)
                    /\ res.op = "d_at" => v = SumDAt(p, t)
                    /\ p.degree = 0 => v = (IF res.op = "at" THEN c[1] ELSE Zero)
                    /\ p.degree = 1 =>
                         v = (IF res.op = "at" THEN RAdd(RMul(c[1], u), c[2]) ELSE c[1])
                    /\ c = <<One, Zero, Zero>> =>
                         v = (IF res.op = "at" THEN RMul(u, u) ELSE RMul(R(2), u))

C5_Witness ==
    /\ Ran({"d_at"}) /\ heap[res.m1].degree = 2 /\ res.t.shape = <<2>>
    /\ heap[res.m1].offset = One
    /\ heap[res.m1].coeffs.data = <<One, R(-2), One>>
    /\ res.out.data = <<R(-4), Zero>>

\* ------------------------------------------------------------------- C6
\* C6: at and d_at return a scalar for a scalar time and, for a sequence of
\* N times, a sequence of exactly N values, for every degree >= 0.
C6_ShapePreserved ==
    Ran({"at", "d_at"}) =>
        IF res.t.py
        THEN res.out.py /\ res.out.shape = <<>>
        ELSE /\ ~res.out.py
             /\ res.out.shape = res.t.shape
             /\ Len(res.out.data) = Len(res.t.data)

\* ------------------------------------------------------------------- C2
\* C2: a composite answers each queried time from exactly one source: m1
\* before the range, m2 after it, blend on the closed range; a sequence of
\* times is answered element by element, in order, one result per time.
C2_Dispatch ==
    (Ran({"at", "d_at"}) /\ heap[res.m1].kind = "blend") =>
        LET self == heap[res.m1]
            t1 == AtLeast1d(res.t)
            low == self.offset
            high == RAdd(self.offset, self.horizon)
            before == MaskLt(t1, low)
            after == MaskGt(t1, high)
            inside == MaskBetween(t1, low, high)
        IN  /\ res.out.py = res.t.py
            /\ res.out.shape = res.t.shape
            /\ Len(res.out.data) = Len(t1.data)
            /\ \A i \in 1..Len(t1.data) :
                 LET t == t1.data[i]
                     src == IF RLt(t, low) THEN self.m1
                            ELSE IF RLt(high, t) THEN self.m2 ELSE self.blend
                 IN  /\ res.out.data[i] = Eval(heap, src, res.op, PyFloat(t), G).data[1]
                     /\ Cardinality({k \in 1..3 : <<before, after, inside>>[k][i]}) = 1
                     /\ inside[i] <=> (RLe(low, t) /\ RLe(t, high))

C2_Witness ==
    /\ Ran({"d_at"}) /\ heap[res.m1].kind = "blend" /\ res.t.shape = <<2>>
    /\ heap[heap[res.m1].m1].kind = "blend"
    /\ heap[heap[res.m1].m2].kind = "poly" /\ heap[heap[res.m1].m2].degree = 0
    /\ RLt(RAdd(heap[res.m1].offset, heap[res.m1].horizon), res.t.data[1])
    /\ res.t.data[2] = heap[res.m1].offset

\* ------------------------------------------------------------------- C1
\* C1: for h > 0 poly_blend_3(m1, m2, tnow, h) returns a cubic of offset tnow
\* whose position and velocity are those of m1 at tnow and of m2 at tnow + h.
C1_BoundaryMatching ==
    (Ran({"poly_blend_3"}) /\ RLt(Zero, res.hz)) =>
        LET tnow == PyFloat(TimeArg)
            tend == PyFloat(RAdd(TimeArg, res.hz))
        IN  /\ res.err = "none"
            /\ res.out.kind = "poly" /\ res.out.degree = 3
            /\ res.out.offset = TimeArg
            /\ PolyAt(res.out, tnow) = Eval(heap, res.m1, "at", tnow, G)
            /\ PolyAt(res.out, tend) = Eval(heap, res.m2, "at", tend, G)
            /\ PolyDAt(res.out, tnow) = Eval(heap, res.m1, "d_at", tnow, G)
            /\ PolyDAt(res.out, tend) = Eval(heap, res.m2, "d_at", tend, G)

C1_Witness ==
    /\ Ran({"poly_blend_3"}) /\ res.hz = R(2) /\ res.err = "none"
    /\ heap[res.m1].kind = "blend" /\ heap[res.m2].kind = "poly"
    /\ heap[res.m2].degree = 2
    /\ res.out.coeffs.data[1] # Zero

\* ------------------------------------------------------------------- C7
SelfBlend ==
    /\ Ran({"poly_blend_3"}) /\ RLt(Zero, res.hz) /\ res.m1 = res.m2
    /\ heap[res.m1].kind = "poly" /\ heap[res.m1].degree = 2

\* C7 as claimed: the blend of a quadratic m with itself, at any t0, has the
\* coefficients 0, m.coeffs[0], m.coeffs[1], m.coeffs[2].
C7_SelfBlendOwnCoeffs ==
    SelfBlend => res.out.coeffs.data = <<Zero>> \o heap[res.m1].coeffs.data

\* C7 as amended: the blend of a quadratic m with itself has the leading
\* coefficient 0 and then m re-expanded about t0: m.coeffs[0], m.d_at(t0),
\* m.at(t0); these are m's own coefficients when t0 = m.offset.
C7_SelfBlendReexpanded ==
    SelfBlend =>
        LET m == heap[res.m1]
            c == res.out.coeffs.data
        IN  /\ res.err = "none"
            /\ c[1] = Zero
            /\ c[2] = m.coeffs.data[1]
            /\ c[3] = PolyDAt(m, PyFloat(TimeArg)).data[1]
            /\ c[4] = PolyAt(m, PyFloat(TimeArg)).data[1]
            /\ TimeArg = m.offset => c = <<Zero>> \o m.coeffs.data

C7_Witness ==
    /\ SelfBlend /\ TimeArg = heap[res.m1].offset /\ res.hz = R(2)
    /\ heap[res.m1].coeffs.data = <<One, R(-2), R(3)>>
    /\ res.out.coeffs.data = <<Zero, One, R(-2), R(3)>>

\* ------------------------------------------------------------------- C3
\* C3: for a composite m, _flatten(m, offset) has the at and the d_at of m
\* at every t >= offset.
C3_FlattenEquivalent ==
    (Ran({"_flatten"}) /\ heap[res.m1].kind = "blend") =>
        \A t \in Times, a \in {"at", "d_at"} :
            RLe(TimeArg, t) =>
                Eval(heap, res.out, a, PyFloat(t), G) = Eval(heap, res.m1, a, PyFloat(t), G)

\* ------------------------------------------------------------------- C4
\* C4: poly_blend_3 and the composite's constructor, flatten set or not,
\* raise ValueError for a horizon <= 0, and no composite has a horizon <= 0.
C4_NonPositiveHorizon ==
    /\ (Ran({"poly_blend_3", "PolynomialMotionBlend"}) /\ RLe(res.hz, Zero)) =>
           res.err = "ValueError"
    /\ (Ran({"PolynomialMotionBlend"}) /\ RLe(res.hz, Zero)) => res.out = 0
    /\ \A m \in BlendIds : RLt(Zero, heap[m].horizon) /\ heap[m].blend \in Ids

C4_Witness ==
    /\ Ran({"PolynomialMotionBlend"}) /\ res.hz = Zero /\ res.fl
    /\ heap[res.m1].kind = "blend"
    /\ res.err = "ValueError"

\* ------------------------------------------------------------------- C8
\* the composite of the call in hand, built without flatten on the heap the
\* call found
Unflattened ==
    PolynomialMotionBlend(SubSeq(heap, 1, res.out - 1), res.m1, res.m2,
                          TimeArg, res.hz, FALSE, G).heap

\* C8: a composite built with flatten = True has, at every t >= offset, the
\* at and the d_at of the composite built from the same arguments without.
C8_FlattenedSameFromOffset ==
    (Ran({"PolynomialMotionBlend"}) /\ res.fl /\ res.err = "none") =>
        \A t \in Times, a \in {"at", "d_at"} :
            RLe(TimeArg, t) =>
                Eval(heap, res.out, a, PyFloat(t), G)
                    = Eval(Unflattened, res.out, a, PyFloat(t), G)

\* ------------------------------------------------------------------- C9
\* C9: in a chain of composites built with flatten = True, each on the one
\* before and a plain motion, every composite stores plain motions as m1, m2.
C9_ChainStaysFlat ==
    \A c \in BlendIds : heap[heap[c].m1].kind = "poly" /\ heap[heap[c].m2].kind = "poly"

C9_Witness ==
    /\ Cardinality(BlendIds) >= 3
    /\ \E c \in BlendIds : heap[c].m1 \in OwnedIdsOf(heap) /\ heap[c].m1 < c - 2

\* ------------------------------------------------------------------ C10
\* C10: no call changes a field of a motion that exists: a construction only
\* adds objects, and _flatten, at, d_at, range and poly_blend_3 leave the
\* heap as it is.
C10_Frame ==
    [][ /\ Len(heap') >= Len(heap)
        /\ \A i \in 1..Len(heap) : heap'[i] = heap[i]
        /\ res.op # "PolynomialMotionBlend" => heap' = heap ]_vars

C10_Witness ==
    /\ Ran({"PolynomialMotionBlend"}) /\ res.fl /\ res.err = "none"
    /\ heap[res.m1].kind = "blend" /\ heap[res.m2].kind = "blend"
    /\ heap[res.out].m1 # res.m1 /\ heap[res.out].m2 # res.m2

====
